---- MODULE Spec2Model ----
(***************************************************************************)
(* Model of one FormGenerator instance of ConfigDrivenForms (README.md):   *)
(* the field list handed to the component, the Formik state the component  *)
(* drives (values, errors, isSubmitting), the two messages of              *)
(* useFormSubmit, and the calls of the external onSubmit callback that     *)
(* have been started and have not settled.                                 *)
(*                                                                         *)
(* One action is one browser task: the user event (or the settling of the  *)
(* callback's promise) together with the promise continuations it queues.  *)
(* Formik and Yup are libraries outside the repository; they are modelled  *)
(* at the places where FormGenerator uses them.                            *)
(***************************************************************************)
EXTENDS Naturals, Sequences, FiniteSets, TLC

\* ------------------------------------------------------------------ bounds
\* Longest field list handed to FormGenerator.
MaxFields == 2
\* Cap on the calls of onSubmit that are in flight at once.
MaxCalls == 2

\* --------------------------------------------------------------- constants
\* useState<string | null>(null)
Null == "null"
\* setSuccessMessage('Form submitted successfully!')
SuccessText == "Form submitted successfully!"
\* setErrorMessage('Failed to submit the form. Please try again.')
FailureText == "Failed to submit the form. Please try again."

\* A descriptor that has no `name` property (App.jsonData's last entry).
Undefined == "<no name property>"
\* A descriptor that has no `validation` property.
NoRule == "<no validation property>"

\* -------------------------------------------------------- field descriptors
\* interface Field: type, name, validation (label and options play no part
\* in the state). name: string admits any string: two ordinary property
\* names, and '__proto__', which a plain object does not hold as an own
\* property.
Names == {"username", "email", "__proto__"}
\* The kinds lists are drawn from: a text-like one, the checkbox, and the
\* 'submit' pseudo-kind of App, which FormField does not know.
KindsUsed == {"text", "checkbox", "submit"}
\* Yup schemas a descriptor can carry: string().required(), which '' fails,
\* and string().email(), which '' passes.
Rules == {"required", "email"}

\* Descriptors that satisfy interface Field (name: string) ...
TypedFields ==
  [type : KindsUsed, name : Names, validation : Rules \cup {NoRule}]
\* ... and the one shape App.jsonData adds to them: { type: 'submit',
\* value: 'Submit' }, with neither name nor validation.
SubmitPseudoField ==
  [type |-> "submit", name |-> Undefined, validation |-> NoRule]
FieldDescriptors == TypedFields \cup {SubmitPseudoField}

FieldLists ==
  UNION {[1..n -> FieldDescriptors] : n \in 0..MaxFields}

\* acc[field.name] / shape[field.name]: the property key of a descriptor.
\* A missing name is the key "undefined".
Key(field) ==
  IF field.name = Undefined THEN "undefined" ELSE field.name

\* obj[k] = v on a plain JavaScript object, as its own properties. The key
\* '__proto__' is the prototype accessor of such an object: assigning to it
\* adds no own property (a string is ignored, an object becomes the
\* prototype), so the own properties stay as they were.
Put(obj, k, v) ==
  IF k = "__proto__" THEN obj
  ELSE [x \in (DOMAIN obj) \cup {k} |-> IF x = k THEN v ELSE obj[x]]

\* obj[k] read from a plain JavaScript object: the own property, else what
\* the prototype chain gives ('__proto__' reads the prototype itself, any
\* other missing key reads undefined).
ObjectPrototype == "<Object.prototype>"
Get(obj, k) ==
  IF k \in DOMAIN obj THEN obj[k]
  ELSE IF k = "__proto__" THEN ObjectPrototype
  ELSE Undefined

\* {} as any
EmptyObject == [x \in {} |-> ""]

\* ------------------------------------------------------------ FormGenerator
\* jsonData.fields.reduce((acc, field) => { acc[field.name] = ''; ... }, {})
RECURSIVE ReduceInitialValues(_, _)
ReduceInitialValues(fs, acc) ==
  IF fs = <<>> THEN acc
  ELSE ReduceInitialValues(Tail(fs), Put(acc, Key(Head(fs)), ""))

InitialValues(fs) == ReduceInitialValues(fs, EmptyObject)

\* ------------------------------------------------- generateValidationSchema
\* fields.forEach(field => { if (field.validation) shape[field.name] =
\* field.validation })
\* Variant: the first descriptor of a name keeps its rule.
RECURSIVE ForEachShapeFirstWins(_, _)
ForEachShapeFirstWins(fs, shape) ==
  IF fs = <<>> THEN shape
  ELSE ForEachShapeFirstWins(Tail(fs),
         IF Head(fs).validation # NoRule /\ Key(Head(fs)) \notin DOMAIN shape
           THEN Put(shape, Key(Head(fs)), Head(fs).validation)
           ELSE shape)
generateValidationSchemaFirstWins(fs) == ForEachShapeFirstWins(fs, EmptyObject)

\* Variant: only the kinds FormField renders contribute their rule.
RECURSIVE ForEachShapeKnownKinds(_, _)
ForEachShapeKnownKinds(fs, shape) ==
  IF fs = <<>> THEN shape
  ELSE ForEachShapeKnownKinds(Tail(fs),
         IF Head(fs).validation # NoRule /\ Head(fs).type # "submit"
           THEN Put(shape, Key(Head(fs)), Head(fs).validation)
           ELSE shape)
generateValidationSchemaKnownKinds(fs) == ForEachShapeKnownKinds(fs, EmptyObject)

RECURSIVE ForEachShape(_, _)
ForEachShape(fs, shape) ==
  IF fs = <<>> THEN shape
  ELSE ForEachShape(Tail(fs),
         IF Head(fs).validation # NoRule
           THEN Put(shape, Key(Head(fs)), Head(fs).validation)
           ELSE shape)

generateValidationSchema(fs) == ForEachShape(fs, EmptyObject)

\* ---------------------------------------------------------------- FormField
\* The switch over field.type: TRUE when a control is returned, FALSE for
\* the default branch (return null).
Renders(kind) ==
  CASE kind \in {"text", "password", "email", "number"} -> TRUE
    [] kind = "checkbox" -> TRUE
    [] kind = "radio" -> TRUE
    [] kind = "select" -> TRUE
    [] kind = "textarea" -> TRUE
    [] OTHER -> FALSE

\* What the user can put into a text-like control.
TextInputs == {"", "bob", "bob@x.com"}
\* The two values a toggled checkbox control stores (neither is '').
Checked == "<checked>"
Unchecked == "<unchecked>"

\* The values the control rendered for `field` can store next, given the
\* value its name holds now.
ControlValues(field, current) ==
  IF ~Renders(field.type) THEN {}
  ELSE IF field.type = "checkbox"
    THEN {IF current = Checked THEN Unchecked ELSE Checked}
  ELSE TextInputs \ {current}

\* ---------------------------------------------------------- Yup validation
\* Whether value v satisfies a rule. Formik hands '' to Yup as undefined, so
\* '' fails required() and passes a rule without it.
IsEmail(v) == v = "bob@x.com"
Passes(rule, v) ==
  CASE rule = "required" -> v # ""
    [] rule = "email" -> v = "" \/ IsEmail(v)
    [] OTHER -> TRUE

\* Yup.object().shape(shape) applied to the values: the keys in error.
Validate(schema, vals) ==
  {k \in DOMAIN schema :
     ~Passes(schema[k], IF k \in DOMAIN vals THEN vals[k] ELSE "")}

\* -------------------------------------------------------------------- state
VARIABLES
  fields,          \* jsonData.fields, the list the component was given
  initialValues,   \* const initialValues = jsonData.fields.reduce(...)
  validationSchema,  \* const validationSchema = generateValidationSchema(..)
  values,          \* Formik's values
  errors,          \* Formik's errors: the keys that hold an error
  isSubmitting,    \* Formik's isSubmitting
  successMessage,  \* useFormSubmit's successMessage
  errorMessage,    \* useFormSubmit's errorMessage
  calls            \* the values of each onSubmit call started and not settled

\* What the component keeps as given for its whole life.
props == <<fields, initialValues, validationSchema>>

vars ==
  <<fields, initialValues, validationSchema, values, errors, isSubmitting,
    successMessage, errorMessage, calls>>

\* What the promise of onSubmit can be rejected with.
ThrownErrors == {"Submission failed", "network down"}

\* Formik's render props: dirty is "values differ from initialValues",
\* isValid is "errors is empty".
dirty == values # initialValues
isValid == errors = {}

\* Variant: the button ignores isSubmitting.
DisabledIgnoringSubmitting == ~isValid \/ ~dirty
\* Variant: the button ignores dirty.
DisabledIgnoringDirty == isSubmitting \/ ~isValid

\* <Button type="submit" disabled={isSubmitting || !isValid || !dirty}>
Disabled == isSubmitting \/ ~isValid \/ ~dirty

\* The state after the component's first render: initialValues and
\* validationSchema are computed from the list, Formik starts from
\* initialValues with no errors (it does not validate on mount), both
\* messages are null, nothing is in flight.
Init ==
  /\ fields \in FieldLists
  /\ initialValues = InitialValues(fields)
  /\ validationSchema = generateValidationSchema(fields)
  /\ values = initialValues
  /\ errors = {}
  /\ isSubmitting = FALSE
  /\ successMessage = Null
  /\ errorMessage = Null
  /\ calls = <<>>

\* The user changes the control rendered for fields[i]: Formik assigns the
\* value under the field's name in a copy of values (for '__proto__' the
\* assignment of a string or boolean leaves the copy as it was) and
\* validates the new values against the schema. Nothing stops this while a
\* submission is in flight.
Change(i, v) ==
  /\ v \in ControlValues(fields[i], Get(values, Key(fields[i])))
  /\ values' = Put(values, Key(fields[i]), v)
  /\ errors' = Validate(validationSchema, values')
  /\ UNCHANGED <<props, isSubmitting, successMessage, errorMessage, calls>>

\* A rendered control loses focus: Formik validates the current values.
Blur(i) ==
  /\ Renders(fields[i].type)
  /\ errors' = Validate(validationSchema, values)
  /\ errors' # errors
  /\ UNCHANGED <<props, values, isSubmitting, successMessage, errorMessage,
                 calls>>

\* Variant: handleSubmit resets both messages before the await.
SubmitClickClearingMessages ==
  /\ ~Disabled
  /\ Len(calls) < MaxCalls
  /\ errors' = Validate(validationSchema, values)
  /\ IF errors' = {}
       THEN /\ isSubmitting' = TRUE
            /\ calls' = Append(calls, values)
            /\ successMessage' = Null
            /\ errorMessage' = Null
       ELSE /\ isSubmitting' = FALSE
            /\ calls' = calls
            /\ UNCHANGED <<successMessage, errorMessage>>
  /\ UNCHANGED <<props, values>>

\* The user triggers the submit button, which works only while it is not
\* disabled. Formik sets isSubmitting, validates, and only with no error
\* calls onSubmit = handleSubmit(values, ...), which runs up to
\* `await onSubmit(values)`; with errors it clears isSubmitting again.
\* handleSubmit touches neither message before the await.
SubmitClick ==
  /\ ~Disabled
  /\ Len(calls) < MaxCalls
  /\ errors' = Validate(validationSchema, values)
  /\ IF errors' = {}
       THEN /\ isSubmitting' = TRUE
            /\ calls' = Append(calls, values)
       ELSE /\ isSubmitting' = FALSE
            /\ calls' = calls
  /\ UNCHANGED <<props, values, successMessage, errorMessage>>

\* calls without its c-th entry: that call has settled.
Settled(c) ==
  [j \in 1..(Len(calls) - 1) |-> IF j < c THEN calls[j] ELSE calls[j + 1]]

\* Variant: the try block without resetForm().
ResolveWithoutReset(c) ==
  /\ c \in 1..Len(calls)
  /\ successMessage' = SuccessText
  /\ errorMessage' = Null
  /\ isSubmitting' = FALSE
  /\ calls' = Settled(c)
  /\ UNCHANGED <<props, values, errors>>

\* The promise of call c resolves: the try block of handleSubmit goes on
\* (success message, error message null, resetForm()), then finally
\* (setSubmitting(false)). resetForm puts values back to initialValues and
\* empties errors.
Resolve(c) ==
  /\ c \in 1..Len(calls)
  /\ successMessage' = SuccessText
  /\ errorMessage' = Null
  /\ values' = initialValues
  /\ errors' = {}
  /\ isSubmitting' = FALSE
  /\ calls' = Settled(c)
  /\ UNCHANGED props

\* Variant: the catch block calls resetForm() too.
RejectResettingForm(c, err) ==
  /\ c \in 1..Len(calls)
  /\ err \in ThrownErrors
  /\ errorMessage' = FailureText
  /\ successMessage' = Null
  /\ values' = initialValues
  /\ errors' = {}
  /\ isSubmitting' = FALSE
  /\ calls' = Settled(c)
  /\ UNCHANGED props

\* Variant: the catch block leaves the success message alone.
RejectKeepingSuccess(c, err) ==
  /\ c \in 1..Len(calls)
  /\ err \in ThrownErrors
  /\ errorMessage' = FailureText
  /\ isSubmitting' = FALSE
  /\ calls' = Settled(c)
  /\ UNCHANGED <<props, values, errors, successMessage>>

\* The promise of call c rejects with err: the catch block (fixed error
\* message, success message null), then finally (setSubmitting(false)).
Reject(c, err) ==
  /\ c \in 1..Len(calls)
  /\ err \in ThrownErrors
  /\ errorMessage' = FailureText
  /\ successMessage' = Null
  /\ isSubmitting' = FALSE
  /\ calls' = Settled(c)
  /\ UNCHANGED <<props, values, errors>>

Next ==
  \/ \E i \in 1..Len(fields) : \E v \in TextInputs \cup {Checked, Unchecked} :
       Change(i, v)
  \/ \E i \in 1..Len(fields) : Blur(i)
  \/ SubmitClick
  \/ \E c \in 1..MaxCalls : Resolve(c)
  \/ \E c \in 1..MaxCalls : \E err \in ThrownErrors : Reject(c, err)

Spec == Init /\ [][Next]_vars

\* ------------------------------------------------------------------ claims
\* Steps in which a call of onSubmit settles, told apart by the message set.
ResolveStep == Len(calls') < Len(calls) /\ successMessage' # Null
RejectStep == Len(calls') < Len(calls) /\ errorMessage' # Null

\* C1: at most one call of the submit callback is in flight, and while one
\* is in flight the submit button is disabled, so no trigger starts another.
C1_AtMostOneCallInFlight ==
  /\ Len(calls) <= 1
  /\ calls # <<>> => isSubmitting /\ Disabled

\* A call is in flight while the form is valid and dirty: only isSubmitting
\* keeps the button disabled.
C1_Witness == Len(calls) = 1 /\ isValid /\ dirty

\* C2: every step that invokes the submit callback starts from a state whose
\* values pass the validation schema, differ from the initial values, and
\* has no submission in flight; a required field is never empty in the
\* values handed over.
C2_CallbackOnlyFromEnabledState ==
  [][Len(calls') > Len(calls) =>
       /\ Validate(validationSchema, values) = {}
       /\ values # initialValues
       /\ ~isSubmitting
       /\ calls = <<>>
       /\ calls' = <<values>>
       /\ \A k \in DOMAIN validationSchema :
            validationSchema[k] = "required" => values[k] # ""]_vars

\* The callback has been invoked with values that a required rule governs.
C2_Witness ==
  /\ calls # <<>>
  /\ \E k \in DOMAIN validationSchema :
       validationSchema[k] = "required" /\ calls[1][k] # ""

\* C3: when the callback resolves, the success message is shown, the error
\* message is null, every value is back to the initial empty string, and
\* nothing is in flight any more.
C3_ResolveResetsForm ==
  [][ResolveStep =>
       /\ successMessage' = SuccessText
       /\ errorMessage' = Null
       /\ values' = initialValues
       /\ \A k \in DOMAIN values' : values'[k] = ""
       /\ ~isSubmitting'
       /\ calls' = <<>>]_vars

\* A form with fields after a successful submission.
C3_Witness ==
  /\ successMessage = SuccessText
  /\ fields # <<>>
  /\ values = initialValues
  /\ ~isSubmitting
  /\ calls = <<>>

\* C4 as stated: when the callback rejects, the fixed failure message is
\* shown, the success message is null, the values are the ones that were
\* submitted, isSubmitting is released and the button is enabled again.
C4_RejectKeepsSubmittedValues ==
  [][RejectStep =>
       /\ errorMessage' = FailureText
       /\ successMessage' = Null
       /\ values' = calls[1]
       /\ ~isSubmitting'
       /\ ~Disabled']_vars

\* C4 as amended: when the callback rejects, the fixed failure message is
\* shown, the success message is null, the rejection leaves the values as
\* they were just before it, isSubmitting is released, and when the values
\* are still the submitted ones the button is enabled and a second submit
\* invokes the callback without any edit.
C4_RejectLeavesValuesAlone ==
  [][RejectStep =>
       /\ errorMessage' = FailureText
       /\ successMessage' = Null
       /\ values' = values
       /\ ~isSubmitting'
       /\ calls' = <<>>
       /\ values = calls[1] =>
            ~Disabled' /\ Validate(validationSchema, values') = {}]_vars

\* After a failed submission the button is enabled again.
C4_Witness ==
  /\ errorMessage = FailureText
  /\ successMessage = Null
  /\ calls = <<>>
  /\ ~Disabled

\* C5: the success message and the error message are never both set.
C5_NeverBothMessages == ~(successMessage # Null /\ errorMessage # Null)

\* A failure has been reported and a success has been reported at some time
\* before or after it is not shown.
C5_Witness ==
  /\ errorMessage = FailureText
  /\ successMessage = Null
  /\ ~isSubmitting
  /\ dirty

\* C6 as stated: while a call of the callback is in flight, neither message
\* is set.
C6_PendingHasNoMessage ==
  calls # <<>> => successMessage = Null /\ errorMessage = Null

\* C6 as amended: only the settling of a callback changes the messages; a
\* submit attempt (and every edit) leaves both as the last settlement set
\* them.
C6_OnlySettlementChangesMessages ==
  [][Len(calls') >= Len(calls) =>
       successMessage' = successMessage /\ errorMessage' = errorMessage]_vars

\* A call is in flight with the message of an earlier attempt still set.
C6_Witness ==
  calls # <<>> /\ (successMessage # Null \/ errorMessage # Null)

\* The names the descriptors of the list declare.
DeclaredNames ==
  {fields[i].name : i \in 1..Len(fields)} \ {Undefined}

\* C7: the initial values have exactly one entry per declared field name, no
\* other entry, and every entry is the empty string.
C7_InitialValuesExactlyTheNames ==
  /\ DOMAIN initialValues = DeclaredNames
  /\ \A k \in DOMAIN initialValues : initialValues[k] = ""

\* The keys of the descriptors that declare a rule.
RuleKeys ==
  {Key(fields[i]) : i \in {j \in 1..Len(fields) : fields[j].validation # NoRule}}

\* C8: the schema has an entry for exactly the names of the descriptors that
\* declare a rule, and a name for which none declares one is never in
\* error, whatever value it is given.
C8_SchemaExactlyTheRuleFields ==
  /\ DOMAIN validationSchema = RuleKeys
  /\ errors \subseteq RuleKeys
  /\ \A k \in (DOMAIN values) \ RuleKeys :
       \A v \in TextInputs \cup {Checked, Unchecked} :
         /\ k \notin Validate(validationSchema, Put(values, k, v))
         /\ Validate(validationSchema, Put(values, k, v))
              = Validate(validationSchema, values)

\* The last descriptor of the list with key k, and the last one with key k
\* that declares a rule (0 when there is none).
LastIndex(k) ==
  CHOOSE i \in 1..Len(fields) :
    /\ Key(fields[i]) = k
    /\ \A j \in (i + 1)..Len(fields) : Key(fields[j]) # k
LastRuleIndex(k) ==
  IF k \in RuleKeys
    THEN CHOOSE i \in 1..Len(fields) :
           /\ Key(fields[i]) = k /\ fields[i].validation # NoRule
           /\ \A j \in (i + 1)..Len(fields) :
                ~(Key(fields[j]) = k /\ fields[j].validation # NoRule)
    ELSE 0
\* The keys that more than one descriptor of the list has.
SharedKeys ==
  {k \in {Key(fields[i]) : i \in 1..Len(fields)} :
     \E i, j \in 1..Len(fields) :
       i < j /\ Key(fields[i]) = k /\ Key(fields[j]) = k}

\* C9 as stated: for a shared name each mapping holds the entry of the last
\* descriptor of that name: the initial value '', and its rule, or no
\* schema entry when it declares none.
C9_LastDescriptorWins ==
  \A k \in SharedKeys :
    /\ k \in DOMAIN initialValues
    /\ initialValues[k] = ""
    /\ IF fields[LastIndex(k)].validation = NoRule
         THEN k \notin DOMAIN validationSchema
         ELSE /\ k \in DOMAIN validationSchema
              /\ validationSchema[k] = fields[LastIndex(k)].validation

\* C9 as amended: for a shared name each mapping holds at most one entry.
\* For the name '__proto__' neither mapping holds an entry. For any other
\* name the initial value is '' and the schema entry is the rule of the last
\* descriptor of that name that declares a rule; there is no schema entry
\* only when none declares one.
C9_LastDeclaredRuleWins ==
  \A k \in SharedKeys :
    /\ k \in DOMAIN initialValues <=> k # "__proto__"
    /\ k \in DOMAIN initialValues => initialValues[k] = ""
    /\ k \in DOMAIN validationSchema <=>
         (k # "__proto__" /\ LastRuleIndex(k) # 0)
    /\ k \in DOMAIN validationSchema =>
         validationSchema[k] = fields[LastRuleIndex(k)].validation

\* Two descriptors share a name the mappings hold: the first declares a
\* rule and the last declares none, and the first one's rule is the entry.
C9_Witness ==
  \E i, j \in 1..Len(fields) :
    /\ i < j
    /\ Key(fields[i]) = Key(fields[j])
    /\ fields[i].validation # NoRule
    /\ fields[j].validation = NoRule
    /\ Key(fields[i]) \in DOMAIN validationSchema
    /\ validationSchema[Key(fields[i])] = fields[i].validation

\* The descriptors FormField renders nothing for, with a rule '' fails.
Blocking ==
  {i \in 1..Len(fields) :
     /\ ~Renders(fields[i].type)
     /\ fields[i].validation # NoRule
     /\ ~Passes(fields[i].validation, "")}
\* Whether no other descriptor of the list has the key of fields[i].
UniqueKey(i) ==
  \A j \in 1..Len(fields) : j # i => Key(fields[j]) # Key(fields[i])

\* The list with the kind of its i-th descriptor replaced.
WithKind(i, kind) == [fields EXCEPT ![i].type = kind]

\* C10 as stated: the initial values and the schema do not depend on the
\* kind of any descriptor (an unrecognised kind contributes what any other
\* would), and a form that holds a descriptor of unrecognised kind with a
\* rule '' fails has the button disabled and never invokes the callback.
C10_UnrenderedRuleBlocksForm ==
  /\ \A i \in 1..Len(fields) : \A kind \in KindsUsed :
       /\ InitialValues(WithKind(i, kind)) = initialValues
       /\ generateValidationSchema(WithKind(i, kind)) = validationSchema
  /\ Blocking # {} => Disabled /\ calls = <<>>

\* C10 as amended: whether a descriptor is in the initial values and in the
\* schema depends on its name and rule alone, never on its kind: it is,
\* unless the name is '__proto__', for which neither mapping holds an entry.
\* A form that holds a descriptor of unrecognised kind with a rule '' fails,
\* under a name other than '__proto__' that no other descriptor shares, has
\* that rule as the schema's entry, the button disabled and no call of the
\* callback.
C10_UnrenderedUniqueRuleBlocksForm ==
  /\ \A i \in 1..Len(fields) :
       /\ Key(fields[i]) \in DOMAIN initialValues
            <=> Key(fields[i]) # "__proto__"
       /\ fields[i].validation # NoRule =>
            (Key(fields[i]) \in DOMAIN validationSchema
               <=> Key(fields[i]) # "__proto__")
  /\ \A i \in Blocking :
       (UniqueKey(i) /\ Key(fields[i]) # "__proto__") =>
         /\ validationSchema[Key(fields[i])] = fields[i].validation
         /\ Disabled
         /\ calls = <<>>

\* Such a form after the user has filled in the other field validly: only
\* the field without a control keeps the form invalid.
C10_Witness ==
  \E i \in Blocking :
    /\ UniqueKey(i)
    /\ dirty
    /\ errors = {Key(fields[i])}

====
